---- MODULE Spec2Model ----
(***************************************************************************)
(* Model of tools/a11y_swiftui_lint.py: the detector find_issues_in_file,  *)
(* the fixer apply_autofix and the `autofix` command of main.              *)
(*                                                                         *)
(* Text is a sequence of tokens.  A token stands for a piece of source     *)
(* text that the program's patterns look at:                               *)
(*   Button        a word matched by BUTTON_RE                             *)
(*   Image(        the opening of an icon reference                        *)
(*   systemName:   the rest of it, `systemName: "<v>")`                    *)
(*   .accessibilityLabel   a label annotation `.accessibilityLabel("<v>")` *)
(*   indent        four spaces                                             *)
(*   \n            a line break                                            *)
(* IMAGE_RE matches `Image(`, any white space (indent or line break) and   *)
(* `systemName: "<v>")`.                                                   *)
(***************************************************************************)
EXTENDS Integers, Sequences, FiniteSets, TLC

VARIABLES disk, all_issues, changed_files, pc, run, disk0, before, log

vars == <<disk, all_issues, changed_files, pc, run, disk0, before, log>>

----------------------------------------------------------------------------
(* Program constants *)

WINDOW == 40
LOOKAHEAD == 6
RULE_ID == "A11Y001"
RULE_TITLE == "Icon-only Button missing accessibilityLabel"

SYMBOL_TO_LABEL ==
    ("gearshape" :> "Settings") @@ ("gearshape.fill" :> "Settings") @@
    ("magnifyingglass" :> "Search") @@ ("plus" :> "Add") @@
    ("trash" :> "Delete") @@ ("pencil" :> "Edit") @@
    ("xmark" :> "Close") @@ ("chevron.left" :> "Back")

\* the symbol table lookup .get(symbol, "TODO")
SuggestedLabel(symbol) ==
    IF symbol \in DOMAIN SYMBOL_TO_LABEL THEN SYMBOL_TO_LABEL[symbol] ELSE "TODO"

----------------------------------------------------------------------------
(* Tokens and text *)

Tok(t, v) == [t |-> t, v |-> v]
BTN == Tok("Button", "")
IMG == Tok("Image(", "")
ARG(s) == Tok("systemName:", s)
LAB(l) == Tok(".accessibilityLabel", l)
SP == Tok("indent", "")
NL == Tok("\n", "")

Min(a, b) == IF a < b THEN a ELSE b

\* The positions k >= from, in order, at which flags holds TRUE
Positions(flags, from) ==
    SelectSeq([k \in 1..(Len(flags) - from + 1) |-> from + k - 1], LAMBDA k : flags[k])

\* The absent file
Missing == <<Tok("missing", "")>>

\* str.splitlines(): the pieces between line breaks; a final line break opens
\* no further line.
splitlines(text) ==
    LET breaks == Positions([k \in DOMAIN text |-> text[k] = NL], 1)
        n == Len(breaks) + (IF text # <<>> /\ text[Len(text)] # NL THEN 1 ELSE 0)
    IN [m \in 1..n |->
          SubSeq(text,
                 IF m = 1 THEN 1 ELSE breaks[m - 1] + 1,
                 IF m <= Len(breaks) THEN breaks[m] - 1 ELSE Len(text))]

\* "\n".join(lines)
RECURSIVE JoinRange(_, _, _)
JoinRange(lines, lo, hi) ==
    IF lo > hi THEN <<>>
    ELSE IF lo = hi THEN lines[lo]
    ELSE LET mid == (lo + hi) \div 2
         IN JoinRange(lines, lo, mid) \o <<NL>> \o JoinRange(lines, mid + 1, hi)

join(lines) == JoinRange(lines, 1, Len(lines))

\* BUTTON_RE.search(line)
BUTTON_RE(text) == \E k \in DOMAIN text : text[k].t = "Button"

\* ".accessibilityLabel" in text
HasLabel(text) == \E k \in DOMAIN text : text[k].t = ".accessibilityLabel"

IsSpace(tok) == tok.t \in {"indent", "\n"}

\* The position of the `systemName: "..."` that completes an `Image(` when only
\* white space lies between them from position k on; 0 when there is none.
MatchRest(text, k) ==
    LET solid == Positions([j \in DOMAIN text |-> ~IsSpace(text[j])], k)
    IN IF solid # <<>> /\ text[solid[1]].t = "systemName:" THEN solid[1] ELSE 0

\* The positions of the `Image(` that open a match, leftmost first
MatchStarts(text) ==
    SelectSeq([k \in 1..Len(text) |-> k],
              LAMBDA i : text[i].t = "Image(" /\ MatchRest(text, i + 1) # 0)

\* IMAGE_RE.search(text): <<>> for no match, else <<m.group(1)>> of the
\* leftmost match.
IMAGE_RE(text) ==
    LET starts == MatchStarts(text)
    IN IF starts = <<>> THEN <<>> ELSE <<text[MatchRest(text, starts[1] + 1)].v>>

----------------------------------------------------------------------------
(* find_issues_in_file *)

Issue(path, line, symbol, suggested) ==
    [rule |-> RULE_ID, title |-> RULE_TITLE, path |-> path, line |-> line,
     symbol |-> symbol, suggested_label |-> suggested,
     message |-> <<"Add .accessibilityLabel", suggested>>]

\* Mutation of window_end: the window is one line too long
window_end_wide(lines, i) == Min(Len(lines), i + WINDOW + 1)

\* window_end = min(len(lines), i + 40), i 0-based
window_end(lines, i) == Min(Len(lines), i + WINDOW)

\* The 0-based index of the first line j in range(window_start, window_end)
\* with IMAGE_RE.search(lines[j]); -1 for None.
image_line_idx(lines, wstart, wend) ==
    LET hits == Positions([j \in 1..wend |-> j > wstart /\ IMAGE_RE(lines[j]) # <<>>],
                          wstart + 1)
    IN IF hits = <<>> THEN -1 ELSE hits[1] - 1

\* Mutation of AlreadySeen: no deduplication
NeverSeen(key, seen) == FALSE

\* key in seen
AlreadySeen(key, seen) == key \in seen

\* One pass of the body of `for i, line in enumerate(lines)` up to the key:
\* <<>> when the pass ends in a `continue`, else <<the Issue it would add>>.
Detect1(path, lines, i) ==
    IF ~BUTTON_RE(lines[i + 1]) THEN <<>>
    ELSE
      LET wend == window_end(lines, i)
          window == join(SubSeq(lines, i + 1, wend))
      IN
      IF HasLabel(window) THEN <<>>
      ELSE
        LET m == IMAGE_RE(window) IN
        IF m = <<>> THEN <<>>
        ELSE
          LET idx == image_line_idx(lines, i, wend) IN
          IF idx = -1 THEN <<>>
          ELSE <<Issue(path, idx + 1, m[1], SuggestedLabel(m[1]))>>

\* The passes that reach the key, in order of i
RawDetections(path, lines) ==
    LET all == [k \in 1..Len(lines) |-> Detect1(path, lines, k - 1)]
        kept == SelectSeq(all, LAMBDA d : d # <<>>)
    IN [k \in 1..Len(kept) |-> kept[k][1]]

IssueKey(iss) == <<iss.path, iss.line, iss.symbol, RULE_ID>>

\* The rest of the loop body over those passes: seen and issues
RECURSIVE Dedup(_, _, _, _)
Dedup(raw, k, seen, issues) ==
    IF k > Len(raw) THEN issues
    ELSE IF AlreadySeen(IssueKey(raw[k]), seen) THEN Dedup(raw, k + 1, seen, issues)
    ELSE Dedup(raw, k + 1, seen \cup {IssueKey(raw[k])}, Append(issues, raw[k]))

find_issues_in_file(path, text) ==
    Dedup(RawDetections(path, splitlines(text)), 1, {}, <<>>)

----------------------------------------------------------------------------
(* apply_autofix *)

\* Mutation of SortedIssues: ascending line order
RECURSIVE InsertAscending(_, _, _)
InsertAscending(sorted, iss, k) ==
    IF k > Len(sorted) \/ sorted[k].line > iss.line
    THEN SubSeq(sorted, 1, k - 1) \o <<iss>> \o SubSeq(sorted, k, Len(sorted))
    ELSE InsertAscending(sorted, iss, k + 1)

RECURSIVE AscendingFrom(_, _, _)
AscendingFrom(file_issues, k, acc) ==
    IF k > Len(file_issues) THEN acc
    ELSE AscendingFrom(file_issues, k + 1, InsertAscending(acc, file_issues[k], 1))

SortedAscending(file_issues) == AscendingFrom(file_issues, 1, <<>>)

\* sorted(file_issues, key=lambda x: x.line, reverse=True): stable, so Issues
\* of equal line keep their order.
RECURSIVE InsertSorted(_, _, _)
InsertSorted(sorted, iss, k) ==
    IF k > Len(sorted) \/ sorted[k].line < iss.line
    THEN SubSeq(sorted, 1, k - 1) \o <<iss>> \o SubSeq(sorted, k, Len(sorted))
    ELSE InsertSorted(sorted, iss, k + 1)

RECURSIVE SortFrom(_, _, _)
SortFrom(file_issues, k, acc) ==
    IF k > Len(file_issues) THEN acc
    ELSE SortFrom(file_issues, k + 1, InsertSorted(acc, file_issues[k], 1))

SortedIssues(file_issues) == SortFrom(file_issues, 1, <<>>)

\* Mutation of lookahead_end: only the icon line is inspected
lookahead_end_one(lines, idx) == Min(Len(lines), idx + 1)

\* min(len(lines), idx + 6)
lookahead_end(lines, idx) == Min(Len(lines), idx + LOOKAHEAD)

\* re.match(r"^\s*", line).group(0)
RECURSIVE IndentFrom(_, _)
IndentFrom(line, k) ==
    IF k > Len(line) \/ ~IsSpace(line[k]) THEN SubSeq(line, 1, k - 1)
    ELSE IndentFrom(line, k + 1)

indent(line) == IndentFrom(line, 1)

\* indent + "    " + f'.accessibilityLabel("{iss.suggested_label}")'
insert_line(line, label) == indent(line) \o <<SP, LAB(label)>>

\* Mutation of ListInsert: the new line replaces the line after the icon line
ListOverwrite(lines, idx, new) ==
    SubSeq(lines, 1, idx + 1) \o <<new>> \o SubSeq(lines, idx + 3, Len(lines))

\* lines.insert(idx + 1, new), idx 0-based
ListInsert(lines, idx, new) ==
    SubSeq(lines, 1, idx + 1) \o <<new>> \o SubSeq(lines, idx + 2, Len(lines))

\* The loop over the sorted Issues of one file.  st = [lines, changed, log];
\* log records, for each Issue that passed the range check, the line found at
\* its index when it was applied and whether a line was inserted.
RECURSIVE FixLoop(_, _, _)
FixLoop(sorted, k, st) ==
    IF k > Len(sorted) THEN st
    ELSE
      LET iss == sorted[k]
          idx == iss.line - 1
          lines == st.lines
      IN
      IF idx < 0 \/ idx >= Len(lines) THEN FixLoop(sorted, k + 1, st)
      ELSE
        LET lookahead == join(SubSeq(lines, idx + 1, lookahead_end(lines, idx)))
            entry == [path |-> iss.path, line |-> iss.line, at |-> lines[idx + 1],
                      label |-> iss.suggested_label]
        IN
        IF HasLabel(lookahead)
        THEN FixLoop(sorted, k + 1,
                     [st EXCEPT !.log = Append(@, entry @@ [inserted |-> FALSE])])
        ELSE FixLoop(sorted, k + 1,
                     [lines |-> ListInsert(lines, idx, insert_line(lines[idx + 1], iss.suggested_label)),
                      changed |-> TRUE,
                      log |-> Append(st.log, entry @@ [inserted |-> TRUE])])

\* by_file: the paths in order of first appearance
RECURSIVE FilePaths(_, _, _)
FilePaths(issues, k, acc) ==
    IF k > Len(issues) THEN acc
    ELSE FilePaths(issues, k + 1,
                   IF \E j \in DOMAIN acc : acc[j] = issues[k].path THEN acc
                   ELSE Append(acc, issues[k].path))

IssuesOf(issues, path) == SelectSeq(issues, LAMBDA iss : iss.path = path)

\* Mutation of WriteBack: the file is written whether or not it changed
WriteAlways(old, st) == Append(join(st.lines), NL)

\* if changed: p.write_text("\n".join(lines) + "\n")
WriteBack(old, st) == IF st.changed THEN Append(join(st.lines), NL) ELSE old

\* The loop over by_file.items().  acc = [disk, changed_files, log]
RECURSIVE FixFiles(_, _, _, _)
FixFiles(paths, k, issues, acc) ==
    IF k > Len(paths) THEN acc
    ELSE
      LET p == paths[k] IN
      IF p \notin DOMAIN acc.disk \/ acc.disk[p] = Missing
      THEN FixFiles(paths, k + 1, issues, acc)
      ELSE
        LET st == FixLoop(SortedIssues(IssuesOf(issues, p)), 1,
                          [lines |-> splitlines(acc.disk[p]), changed |-> FALSE, log |-> <<>>])
        IN FixFiles(paths, k + 1, issues,
                    [disk |-> [acc.disk EXCEPT ![p] = WriteBack(@, st)],
                     changed_files |-> acc.changed_files + (IF st.changed THEN 1 ELSE 0),
                     log |-> acc.log \o st.log])

apply_autofix(d, issues) ==
    FixFiles(FilePaths(issues, 1, <<>>), 1, issues,
             [disk |-> d, changed_files |-> 0, log |-> <<>>])

----------------------------------------------------------------------------
(* main: the `autofix` command *)

IGNORE_DIRS == {".git", ".github", "DerivedData", "Pods", "Carthage", ".build", "build"}

\* The paths of the tree under root: two Swift files in root, a text file in
\* root and a Swift file in a directory that the walk prunes.
PathSet == {"A.swift", "B.swift", "notes.txt", "Pods/C.swift"}

\* The directories on the way from root to the file
DirsOf(p) == IF p = "Pods/C.swift" THEN {"Pods"} ELSE {}

\* fn.endswith(".swift")
EndsWithSwift(p) == p \in {"A.swift", "B.swift", "Pods/C.swift"}

\* The sequences that list each element of S once
Orders(S) ==
    {f \in [1..Cardinality(S) -> S] : \A j, k \in DOMAIN f : f[j] = f[k] => j = k}

\* The files that exist, lie in no ignored directory and end in ".swift"
Listed(d) ==
    {p \in PathSet : d[p] # Missing /\ DirsOf(p) \cap IGNORE_DIRS = {} /\ EndsWithSwift(p)}

\* iter_swift_files(root).  os.walk lists the names of a directory in the
\* order the file system gives them, which is any order: the set of the
\* possible results.
iter_swift_files(d) == Orders(Listed(d))

\* all_issues: find_issues_in_file over the files found, in order
RECURSIVE LintFrom(_, _, _, _)
LintFrom(d, files, k, acc) ==
    IF k > Len(files) THEN acc
    ELSE LintFrom(d, files, k + 1, acc \o find_issues_in_file(files[k], d[files[k]]))

lint_all(d, files) == LintFrom(d, files, 1, <<>>)

----------------------------------------------------------------------------
(* Inputs *)

MaxGap == 5
MaxSegs == 3
MaxRuns == 2

LBtn == <<BTN>>
LImg(s) == <<SP, IMG, ARG(s)>>
LBtnImg(s) == <<BTN, IMG, ARG(s)>>
LLab == <<SP, SP, LAB("Menu")>>
LBtnHead == <<BTN, IMG>>
LTailBtn(s) == <<SP, ARG(s), BTN>>

Blank(g) == [k \in 1..g |-> <<>>]
Seg(kind, g) == <<kind>> \o Blank(g)

Kinds == {LBtn, LImg("trash"), LBtnImg("star"), LLab, LBtnHead, LTailBtn("pencil")}
Gaps == (0..MaxGap) \cup {WINDOW - 2, WINDOW - 1}

\* No file starts with the end of an icon reference; segments after the
\* second are followed by at most one blank line; segments after the third
\* are one fixed line.
KindsAt(k) == IF k = 1 THEN Kinds \ {LTailBtn("pencil")}
              ELSE IF k <= 3 THEN Kinds
              ELSE {LBtnImg("star")}
GapsAt(k) == IF k <= 2 THEN Gaps ELSE IF k = 3 THEN {0, 1} ELSE {0}

RECURSIVE Tails(_)
Tails(k) ==
    IF k > MaxSegs THEN {<<>>}
    ELSE {<<>>} \cup {Seg(kind, g) \o rest :
                        kind \in KindsAt(k), g \in GapsAt(k), rest \in Tails(k + 1)}

InputLines == Tails(1)

\* A text file of these lines, each ended by a line break
TextOf(lines) == IF lines = <<>> THEN <<>> ELSE Append(join(lines), NL)

\* The files the walk leaves out hold an icon button without a label
Unscanned == TextOf(<<LBtnImg("star")>>)

\* The second Swift file of the command's tree: absent, or (beside a first
\* file of at most three lines) two icon buttons
TextB == TextOf(<<LBtnImg("trash"), LBtn, LImg("star")>>)
TextsB(lines) == IF Len(lines) <= 3 THEN {Missing, TextB} ELSE {Missing}

Tree(a, b) ==
    [p \in PathSet |-> IF p = "A.swift" THEN a ELSE IF p = "B.swift" THEN b ELSE Unscanned]

----------------------------------------------------------------------------
(* The autofix command run on one file, then run again, or apply_autofix *)
(* called again with the Issues of the first run.                        *)

Init ==
    /\ \E lines \in InputLines : \E b \in TextsB(lines) :
          disk = Tree(TextOf(lines), b)
    /\ disk0 = disk
    /\ before = disk
    /\ all_issues = <<>>
    /\ changed_files = 0
    /\ log = <<>>
    /\ run = 1
    /\ pc = "start"

\* main, lines 244-250
Detect ==
    /\ pc = "start"
    /\ \E files \in iter_swift_files(disk) : all_issues' = lint_all(disk, files)
    /\ pc' = "detected"
    /\ UNCHANGED <<disk, changed_files, run, disk0, before, log>>

\* main, lines 260-265
Autofix ==
    /\ pc = "detected"
    /\ LET r == apply_autofix(disk, all_issues) IN
         /\ disk' = r.disk
         /\ changed_files' = r.changed_files
         /\ log' = r.log
    /\ before' = disk
    /\ pc' = "fixed"
    /\ UNCHANGED <<all_issues, run, disk0>>

\* The command is started again on the files the last run left
Rerun ==
    /\ pc = "fixed"
    /\ run < MaxRuns
    /\ run' = run + 1
    /\ pc' = "start"
    /\ UNCHANGED <<disk, all_issues, changed_files, disk0, before, log>>

\* apply_autofix called a second time with the same Issue list
Reapply ==
    /\ pc = "fixed"
    /\ run = 1
    /\ LET r == apply_autofix(disk, all_issues) IN
         /\ disk' = r.disk
         /\ changed_files' = r.changed_files
         /\ log' = r.log
    /\ before' = disk
    /\ pc' = "reapplied"
    /\ UNCHANGED <<all_issues, run, disk0>>

Next == Detect \/ Autofix \/ Rerun \/ Reapply

Spec == Init /\ [][Next]_vars

----------------------------------------------------------------------------
(* apply_autofix called with any Issue list on a tree of two files *)

MaxIssues == 2
MaxIssueLine == 7

\* The first file: a line, up to MaxGap blank lines, and possibly a second line
FixLinesA ==
    {<<>>} \cup
    {Seg(k1, g) \o rest :
        k1 \in {LBtnImg("star"), LImg("trash")}, g \in 0..MaxGap,
        rest \in {<<>>, <<LImg("trash")>>, <<LLab>>}}

\* The second file: absent, or a text whose last line has no line break
FixTextsB == {Missing, join(<<LImg("trash")>>), join(<<LBtnImg("star"), LLab>>)}

GivenIssues ==
    {Issue("A.swift", l, "trash", "Delete") : l \in 0..MaxIssueLine} \cup
    {Issue("A.swift", 1, "star", "TODO")} \cup
    {Issue("B.swift", 1, "star", "TODO")}

IssueLists == UNION {[1..n -> GivenIssues] : n \in 0..MaxIssues}

InitFix ==
    /\ \E lines \in FixLinesA, b \in FixTextsB :
          disk = Tree(TextOf(lines), b)
    /\ disk0 = disk
    /\ before = disk
    /\ all_issues \in IssueLists
    /\ changed_files = 0
    /\ log = <<>>
    /\ run = 1
    /\ pc = "given"

ApplyGiven ==
    /\ pc = "given"
    /\ LET r == apply_autofix(disk, all_issues) IN
         /\ disk' = r.disk
         /\ changed_files' = r.changed_files
         /\ log' = r.log
    /\ before' = disk
    /\ pc' = "applied"
    /\ UNCHANGED <<all_issues, run, disk0>>

NextFix == ApplyGiven

SpecFix == InitFix /\ [][NextFix]_vars

----------------------------------------------------------------------------
(* Vocabulary of the properties *)

Lines0(p) == splitlines(disk0[p])
LinesNow(p) == splitlines(disk[p])
Present(p) == disk0[p] # Missing

\* The Issues of the list that name file p
IssueIdx(p) == {k \in DOMAIN all_issues : all_issues[k].path = p}

\* The insertions the last apply_autofix made in file p
Inserted(p) == {k \in DOMAIN log : log[k].path = p /\ log[k].inserted}

\* Where the original line l of file p lies after the insertions made above it
Pos(p, l) == l + Cardinality({k \in Inserted(p) : log[k].line < l})

\* No marker in the 6 lines of the file as read that start at line l
NoMarkerNear(lines, l) ==
    \A m \in l..Min(Len(lines), l + LOOKAHEAD - 1) : ~HasLabel(lines[m])

InRange(lines, l) == 1 <= l /\ l <= Len(lines)

\* Line l and the line after it are the original icon line and its annotation
AnnotatedAt(now, orig, l, at, label) ==
    /\ at + 1 <= Len(now)
    /\ now[at] = orig[l]
    /\ now[at + 1] = insert_line(orig[l], label)

\* The identifiers of the icon references written on one line
IconsOf(line) ==
    {line[MatchRest(line, i + 1)].v :
        i \in {i \in DOMAIN line : line[i].t = "Image(" /\ MatchRest(line, i + 1) # 0}}

ControlLines(lines) == {c \in DOMAIN lines : BUTTON_RE(lines[c])}

\* The rule for one control line c (1-based): 0 for no detection, else the
\* first line of c .. min(c + 39, last) that holds an icon reference, when no
\* line of that range holds a marker.
WindowOf(lines, c) == c..Min(c + WINDOW - 1, Len(lines))
Detection(lines, c) ==
    IF \E l \in WindowOf(lines, c) : HasLabel(lines[l]) THEN 0
    ELSE IF \E l \in WindowOf(lines, c) : IconsOf(lines[l]) # {}
         THEN CHOOSE l \in WindowOf(lines, c) :
                /\ IconsOf(lines[l]) # {}
                /\ \A m \in WindowOf(lines, c) : m < l => IconsOf(lines[m]) = {}
         ELSE 0

\* now is orig with annotation lines (white space, then a marker) put in
IsAnnotation(line) ==
    /\ line # <<>>
    /\ line[Len(line)].t = ".accessibilityLabel"
    /\ \A k \in 1..(Len(line) - 1) : IsSpace(line[k])

RECURSIVE Embeds(_, _, _, _)
Embeds(now, i, orig, j) ==
    IF i > Len(now) THEN j > Len(orig)
    ELSE \/ j <= Len(orig) /\ now[i] = orig[j] /\ Embeds(now, i + 1, orig, j + 1)
         \/ IsAnnotation(now[i]) /\ Embeds(now, i + 1, orig, j)

FirstRunDone == pc = "fixed" /\ run = 1

----------------------------------------------------------------------------
(* Properties *)

\* C1: after the first run of the command, every Issue whose icon line had no
\* marker in the 6 lines starting at it in the original file has its
\* annotation line right after its icon line, one insertion per such Issue.
C1_EveryIssueAnnotated ==
    FirstRunDone =>
      /\ \A k \in DOMAIN all_issues :
           LET iss == all_issues[k]
               orig == Lines0(iss.path)
           IN NoMarkerNear(orig, iss.line) =>
                AnnotatedAt(LinesNow(iss.path), orig, iss.line,
                            Pos(iss.path, iss.line), iss.suggested_label)
      /\ \A p \in PathSet :
           Cardinality(Inserted(p)) =
             Cardinality({k \in IssueIdx(p) : NoMarkerNear(Lines0(p), all_issues[k].line)})

\* C2: whenever an Issue is applied, the line at its index is the line that was
\* there in the file as read, and an inserted annotation follows that line in
\* the final file.
C2_LineStability ==
    pc = "applied" =>
      \A k \in DOMAIN log :
        LET e == log[k]
            orig == Lines0(e.path)
        IN /\ InRange(orig, e.line)
           /\ e.at = orig[e.line]
           /\ e.inserted =>
                AnnotatedAt(LinesNow(e.path), orig, e.line, Pos(e.path, e.line), e.label)

C2_Witness ==
    /\ pc = "applied"
    /\ \E j, k \in Inserted("A.swift") : log[j].line < log[k].line

\* C3: a second full run of the command (detect, then fix) on the files of the
\* first run changes no file and counts no modified file.
C3_SecondRunNoop ==
    (pc = "fixed" /\ run = 2) => (disk = before /\ changed_files = 0)

C3_Witness ==
    /\ pc = "fixed" /\ run = 2
    /\ disk # disk0
    /\ all_issues # <<>>

\* C4: apply_autofix called again with the Issue list of the first run
\* inserts nothing and returns 0.
C4_ReapplyNoop ==
    pc = "reapplied" => (disk = before /\ changed_files = 0)

\* C5: no two Issues of the detector's list share the key (path, line,
\* symbol, rule).
C5_UniqueKeys ==
    \A j, k \in DOMAIN all_issues :
      (/\ all_issues[j].path = all_issues[k].path
       /\ all_issues[j].line = all_issues[k].line
       /\ all_issues[j].symbol = all_issues[k].symbol
       /\ all_issues[j].rule = all_issues[k].rule) => j = k

C5_Witness ==
    /\ pc = "detected"
    /\ \E c, d \in ControlLines(LinesNow("A.swift")) :
         /\ c < d
         /\ Detection(LinesNow("A.swift"), c) # 0
         /\ Detection(LinesNow("A.swift"), c) = Detection(LinesNow("A.swift"), d)
    /\ all_issues # <<>>

\* C6: the lines of the Issues are exactly the detections of the control
\* lines: for a control line c, the first line of c .. min(c+39, last) that
\* holds an icon reference, provided no line of that window holds a marker.
C6_DetectionRule ==
    pc = "detected" =>
      \A p \in PathSet :
        p \in Listed(disk) =>
          {all_issues[k].line : k \in IssueIdx(p)} =
            {Detection(LinesNow(p), c) : c \in ControlLines(LinesNow(p))} \ {0}

C6_Witness ==
    /\ pc = "detected"
    /\ \E c \in ControlLines(LinesNow("A.swift")) :
         /\ Detection(LinesNow("A.swift"), c) = c + WINDOW - 1
         /\ Len(LinesNow("A.swift")) > c + WINDOW - 1
         /\ \E k \in DOMAIN all_issues : all_issues[k].line = c + WINDOW - 1

\* C7: the line of an Issue holds an icon reference of the Issue's symbol, and
\* the suggested label is the label of that symbol.
C7_IssueMatchesLine ==
    pc = "detected" =>
      \A k \in DOMAIN all_issues :
        LET iss == all_issues[k] IN
          /\ InRange(LinesNow(iss.path), iss.line)
          /\ iss.symbol \in IconsOf(LinesNow(iss.path)[iss.line])
          /\ iss.suggested_label = SuggestedLabel(iss.symbol)

\* C8: the count returned is the number of files that received an insertion;
\* a file whose Issues were all skipped keeps its content, and a file with an
\* Issue that is in range and has no marker near it is fixed.
Grew(p) == Present(p) /\ Len(LinesNow(p)) > Len(Lines0(p))
Skippable(p, k) ==
    \/ ~Present(p)
    \/ ~InRange(Lines0(p), all_issues[k].line)
    \/ ~NoMarkerNear(Lines0(p), all_issues[k].line)

C8_ModifiedCount ==
    pc = "applied" =>
      /\ changed_files = Cardinality({p \in PathSet : Grew(p)})
      /\ \A p \in PathSet :
           /\ ~Grew(p) => disk[p] = disk0[p]
           /\ (\A k \in IssueIdx(p) : Skippable(p, k)) => disk[p] = disk0[p]
           /\ (\E k \in IssueIdx(p) : ~Skippable(p, k)) => Grew(p)

C8_Witness ==
    /\ pc = "applied"
    /\ changed_files = 1
    /\ Grew("A.swift")
    /\ all_issues[1].path = "B.swift"
    /\ disk0["B.swift"] # Missing

\* C9: the fixed file is the original file with annotation lines put in:
\* no line lost or altered, and no more lines added than the file has Issues.
C9_OriginalLinesKept ==
    pc = "applied" =>
      \A p \in PathSet :
        Present(p) =>
          /\ Embeds(LinesNow(p), 1, Lines0(p), 1)
          /\ Len(LinesNow(p)) = Len(Lines0(p)) + Cardinality(Inserted(p))
          /\ Cardinality(Inserted(p)) <= Cardinality(IssueIdx(p))

C9_Witness ==
    /\ pc = "applied"
    /\ Cardinality(Inserted("A.swift")) = 2
    /\ Len(LinesNow("A.swift")) = Len(Lines0("A.swift")) + 2

\* C10: the Issues of a file come in strictly increasing line order.
C10_StrictlyIncreasing ==
    pc = "detected" =>
      \A j, k \in DOMAIN all_issues :
        (j < k /\ all_issues[j].path = all_issues[k].path)
          => all_issues[j].line < all_issues[k].line

====
